---- MODULE Spec2Model ----
(***************************************************************************)
(* Price-history collection (main.py, api.py) and IMF indicator export     *)
(* (economy.py) as state machines.                                         *)
(*                                                                         *)
(* Spec     : one call of get_price_history / run_analysis (main.py) or of *)
(*            the GET /prices/{game_id} handler (api.py) on one upstream   *)
(*            response and one pair of date bounds.                        *)
(* SpecEcon : one run of economy.main() on one collected data frame.       *)
(* SpecLookup : one request to the economic-indicators endpoints (api.py). *)
(* SpecRun  : one run of run_analysis on entries with varying price fields.*)
(***************************************************************************)
EXTENDS Integers, Sequences, FiniteSets, TLC

VARIABLES
    pc,          \* position of the price-history call
    response,    \* what requests.get returned: status and JSON body
    start_date,  \* the start_date argument (None or a string)
    end_date,    \* the end_date argument (None or a string)
    history,     \* outcome of get_price_history: returned list or raised error
    csv_rows,    \* rows written to price_history.csv by save_price_history_to_csv
    report,      \* what run_analysis printed at its end
    api_result,  \* HTTP outcome of get_prices_by_game_id
    csv_file,    \* the data lines of price_history.csv, as text cells
    variation,   \* the "Variação" line run_analysis printed, if any
    epc,         \* position of economy.main()
    df,          \* the data frame collect_data returned (long-format rows)
    formats,     \* result of prepare_csv_formats
    files,       \* CSV files written by export_to_csv
    banner,      \* final banner printed by economy.main()
    economic_data,  \* api.py: what was loaded from economic_indicators.json
    request,        \* the economic-indicators request being served
    lookup_result   \* HTTP outcome of the economic-indicators handler

vars == <<pc, response, start_date, end_date, history, csv_rows, report,
          api_result, csv_file, variation, epc, df, formats, files, banner,
          economic_data, request, lookup_result>>

priceVars == <<pc, response, start_date, end_date, history, csv_rows, report,
               api_result, csv_file, variation>>
econVars == <<epc, df, formats, files, banner>>
lookupVars == <<economic_data, request, lookup_result>>

-----------------------------------------------------------------------------
(* Bounds of the model *)

MaxLen == 2     \* entries in the upstream deal list
MaxTick == 2    \* instants are 0..MaxTick
MaxRows == 2    \* rows of the collected data frame
MaxPoints == 2  \* data points stored for one country

Ticks == 0..MaxTick

-----------------------------------------------------------------------------
(* JSON / Python values that can stand where a timestamp or a date bound   *)
(* stands.  k is the kind of the value, t the instant a date string names. *)
(*   "absent" : the key is not in the dict                                 *)
(*   "None"   : JSON null / Python None                                    *)
(*   "empty"  : the string ""                                              *)
(*   "num"    : a non-zero number (truthy, not a string)                   *)
(*   "junk"   : a non-empty string that is not ISO-8601                    *)
(*   "z"      : ISO date-time with the "Z" suffix                          *)
(*   "off"    : ISO date-time with the "+00:00" offset                     *)
(*   "naive"  : ISO date or date-time without offset ("2023-01-01")        *)
(* Other fields of an entry hold                                           *)
(*   "int"    : the number t (a price amount, a shop id, a discount)       *)
(*   "text"   : a non-empty string, t naming which ("Steam", "USD")        *)
(* and a cell of the CSV file holds "empty", a string as above, or         *)
(*   "digits" : the decimal text of the number t                           *)

Val(k, t) == [k |-> k, t |-> t]

None == Val("None", 0)
Absent == Val("absent", 0)
EmptyStr == Val("empty", 0)
Num == Val("num", 0)
Junk == Val("junk", 0)

DateStrings == {Val(k, t) : k \in {"z", "naive"}, t \in Ticks}

TimestampValues == {Absent, None, EmptyStr, Num, Junk} \cup DateStrings

BoundValues == {None, EmptyStr, Junk} \cup DateStrings

Number(n) == Val("int", n)
Text(i) == Val("text", i)

\* One upstream entry, its nested "shop" and "deal" objects flattened:
\* shop.id, shop.name, deal.price.amount, deal.price.currency,
\* deal.regular.amount, deal.regular.currency, deal.cut.  A key that is
\* missing at any level is Absent.
EntryOf(ts, shop_id, shop_name, amount, currency, cut) ==
    [timestamp |-> ts,
     shop_id |-> shop_id,
     shop_name |-> shop_name,
     price_amount |-> amount,
     price_currency |-> currency,
     regular_amount |-> Number(100),
     regular_currency |-> Text(2),
     cut |-> cut]

\* entries that differ in their timestamp only
Entries == {EntryOf(ts, Number(61), Text(1), Number(80), Text(2), Number(20)) : ts \in TimestampValues}

\* entries with a valid timestamp that differ in their shop and deal
AmountValues == {Absent, None, Number(0), Number(0 - 50), Number(80), Number(100)}

PricedEntries ==
    {EntryOf(Val("z", 0), shop[1], shop[2], amount, currency, cut) :
        shop \in {<<Absent, Absent>>, <<Number(61), Text(1)>>},
        amount \in AmountValues,
        currency \in {Absent, Text(2)},
        cut \in {Absent, Number(20)}}

\* x is an element of the sequence
Occurs(x, seq) == \E i \in 1..Len(seq) : seq[i] = x

RECURSIVE SeqsUpTo(_, _)
SeqsUpTo(S, n) ==
    IF n = 0 THEN {<<>>}
    ELSE LET shorter == SeqsUpTo(S, n - 1)
         IN  shorter \cup {Append(s, x) : s \in {q \in shorter : Len(q) = n - 1}, x \in S}

\* response.status_code / response.json(): a list of entries, a dict, or
\* anything else (number, string, null)
Responses ==
    {[status |-> "ok", shape |-> "list", items |-> s] : s \in SeqsUpTo(Entries, MaxLen)}
    \cup {[status |-> "ok", shape |-> "dict", items |-> <<>>],
          [status |-> "ok", shape |-> "scalar", items |-> <<>>],
          [status |-> "error", shape |-> "scalar", items |-> <<>>]}

-----------------------------------------------------------------------------
(* Python primitives *)

\* truth value of a JSON value: None, "", 0 and a missing key's default ""
\* are falsy
Truthy(v) == v.k \notin {"None", "absent", "empty"} /\ (v.k = "int" => v.t # 0)

IsStr(v) == v.k \in {"empty", "junk", "z", "off", "naive"}

\* s.replace("Z", "+00:00")
ReplaceZ(s) == IF s.k = "z" THEN Val("off", s.t) ELSE s

\* the ValueError datetime.fromisoformat raises, as a result value
ValueError == [ok |-> FALSE, aware |-> FALSE, t |-> 0]

\* datetime.fromisoformat(s): an aware datetime for an offset, a naive one
\* without; ValueError otherwise.  The "Z" suffix itself is not accepted
\* (the reason for the replace above).
FromIsoformat(s) ==
    CASE s.k = "off" -> [ok |-> TRUE, aware |-> TRUE, t |-> s.t]
      [] s.k = "naive" -> [ok |-> TRUE, aware |-> FALSE, t |-> s.t]
      [] OTHER -> ValueError

\* datetime.fromisoformat(x.replace("Z", "+00:00"))
ParseIso(x) == FromIsoformat(ReplaceZ(x))

\* a < b on datetimes raises TypeError when exactly one of them is aware
Comparable(a, b) == a.aware = b.aware

-----------------------------------------------------------------------------
(* main.py: GamePriceAnalyzer.get_price_history *)

\* One iteration of the filtering loop: "keep" (appended), "skip" (continue,
\* also from the except clause, which catches ValueError and AttributeError
\* only) or "TypeError" (the comparison of a naive with an aware datetime,
\* which the except clause does not catch).
EndFilter(entry_date, ed) ==
    IF ~Truthy(ed) THEN "keep"
    ELSE LET end == ParseIso(ed)
         IN  IF ~end.ok THEN "skip"
             ELSE IF ~Comparable(entry_date, end) THEN "TypeError"
             ELSE IF entry_date.t > end.t THEN "skip"
             ELSE "keep"

StartFilter(entry_date, sd, ed) ==
    IF ~Truthy(sd) THEN EndFilter(entry_date, ed)
    ELSE LET start == ParseIso(sd)
         IN  IF ~start.ok THEN "skip"
             ELSE IF ~Comparable(entry_date, start) THEN "TypeError"
             ELSE IF entry_date.t < start.t THEN "skip"
             ELSE EndFilter(entry_date, ed)

\* EntryOutcome with the timestamp parsed only when a date bound is given
EntryOutcomeParseOnDemand(entry, sd, ed) ==
    LET timestamp == entry.timestamp
    IN  IF ~Truthy(sd) /\ ~Truthy(ed) THEN "keep"
        ELSE IF ~Truthy(timestamp) THEN "skip"
        ELSE IF ~IsStr(timestamp) THEN "skip"
        ELSE LET entry_date == ParseIso(timestamp)
             IN  IF ~entry_date.ok THEN "skip"
                 ELSE StartFilter(entry_date, sd, ed)

EntryOutcome(entry, sd, ed) ==
    LET timestamp == entry.timestamp
    IN  IF ~Truthy(timestamp) THEN "skip"
        ELSE IF ~IsStr(timestamp) THEN "skip"
        ELSE LET entry_date == ParseIso(timestamp)
             IN  IF ~entry_date.ok THEN "skip"
                 ELSE StartFilter(entry_date, sd, ed)

\* the list the loop has built after all of data, or the error that left it
RECURSIVE FilterEntries(_, _, _, _)
FilterEntries(data, sd, ed, filtered_data) ==
    IF data = <<>> THEN [outcome |-> "return", data |-> filtered_data]
    ELSE LET o == EntryOutcome(Head(data), sd, ed)
         IN  CASE o = "TypeError" -> [outcome |-> "TypeError", data |-> <<>>]
               [] o = "keep" -> FilterEntries(Tail(data), sd, ed, Append(filtered_data, Head(data)))
               [] OTHER -> FilterEntries(Tail(data), sd, ed, filtered_data)

\* the value get_price_history produces for a response
PriceHistory(resp, sd, ed) ==
    IF resp.status = "ok"
    THEN IF resp.shape # "list"
         THEN [outcome |-> "return", data |-> <<>>]
         ELSE FilterEntries(resp.items, sd, ed, <<>>)
    ELSE [outcome |-> "return", data |-> <<>>]

NoHistory == [outcome |-> "none", data |-> <<>>]
NoApiResult == [code |-> 0, prices |-> <<>>]

\* the clock at the time of the call, and run_analysis' defaults
NowTick == MaxTick
DefaultStart == Val("z", 0)
DefaultEnd == Val("z", NowTick)

Or(a, b) == IF Truthy(a) THEN a ELSE b

\* a caller invokes get_price_history(start_date, end_date) directly
CallGetPriceHistory ==
    /\ pc = "init"
    /\ history' = PriceHistory(response, start_date, end_date)
    /\ pc' = IF history'.outcome = "return" THEN "returned" ELSE "raised"
    /\ UNCHANGED <<response, start_date, end_date, csv_rows, report, api_result>>
    /\ UNCHANGED <<csv_file, variation>>
    /\ UNCHANGED econVars
    /\ UNCHANGED lookupVars

\* run_analysis up to and including its call of get_price_history
RunAnalysisFetch ==
    /\ pc = "init"
    /\ start_date' = Or(start_date, DefaultStart)
    /\ end_date' = Or(end_date, DefaultEnd)
    /\ history' = PriceHistory(response, start_date', end_date')
    /\ pc' = IF history'.outcome = "return" THEN "analysing" ELSE "raised"
    /\ UNCHANGED <<response, csv_rows, report, api_result>>
    /\ UNCHANGED <<csv_file, variation>>
    /\ UNCHANGED econVars
    /\ UNCHANGED lookupVars

\* dict.get(key, default) on a flattened entry
Get(v, default) == IF v = Absent THEN default ELSE v

\* save_price_history_to_csv builds one row per entry
CsvRow(entry) ==
    [timestamp |-> Get(entry.timestamp, EmptyStr),
     shop_id |-> Get(entry.shop_id, EmptyStr),
     shop_name |-> Get(entry.shop_name, EmptyStr),
     price_amount |-> Get(entry.price_amount, None),
     price_currency |-> Get(entry.price_currency, None),
     regular_amount |-> Get(entry.regular_amount, None),
     regular_currency |-> Get(entry.regular_currency, None),
     cut |-> Get(entry.cut, Number(0))]

ProcessedData(data) == [i \in 1..Len(data) |-> CsvRow(data[i])]

\* the columns of the file: the keys of the first row
Columns == {"timestamp", "shop_id", "shop_name", "price_amount", "price_currency",
            "regular_amount", "regular_currency", "cut"}

\* a cell written as str(value), None included
StrCell(v) ==
    CASE v.k = "None" -> Text(0)
      [] v.k = "int" -> Val("digits", v.t)
      [] OTHER -> v

\* the text csv.DictWriter writes for a value: nothing for None, str(value)
\* for a number, the string itself for a string
CsvCell(v) ==
    CASE v.k = "None" -> EmptyStr
      [] v.k = "int" -> Val("digits", v.t)
      [] OTHER -> v

\* writer.writerows(processed_data)
WriteRows(rows) == [i \in 1..Len(rows) |-> [c \in Columns |-> CsvCell(rows[i][c])]]

\* the printed magnitude f"{abs(change):.1f}" in tenths of a percent, for
\* change = (new - old) / old * 100: rounded to the nearest tenth, a tie to
\* the even one
AbsVal(n) == IF n < 0 THEN 0 - n ELSE n

RoundedTenths(new, old) ==
    LET num == AbsVal(new - old) * 1000
        q == num \div old
        r == num % old
    IN  IF 2 * r < old THEN q
        ELSE IF 2 * r > old THEN q + 1
        ELSE IF q % 2 = 0 THEN q ELSE q + 1

NoVariation == [reported |-> FALSE, tenths |-> 0, label |-> ""]

\* lines 175-195: the variation between the first and the last row
Variation(prices) ==
    IF Len(prices) > 1
    THEN LET old_price == prices[Len(prices)].price_amount
             new_price == prices[1].price_amount
         IN  IF Truthy(old_price) /\ Truthy(new_price) /\ old_price.t > 0
             THEN [reported |-> TRUE,
                   tenths |-> RoundedTenths(new_price.t, old_price.t),
                   label |-> IF new_price.t - old_price.t > 0 THEN "aumento" ELSE "queda"]
             ELSE NoVariation
    ELSE NoVariation

\* run_analysis after get_price_history returned: nothing found, or the CSV
\* is written and the summary printed
RunAnalysisSave ==
    /\ pc = "analysing"
    /\ IF history.data = <<>>
       THEN /\ report' = "no_data"
            /\ UNCHANGED <<csv_rows, csv_file, variation>>
       ELSE /\ csv_rows' = ProcessedData(history.data)
            /\ csv_file' = WriteRows(csv_rows')
            /\ variation' = Variation(csv_rows')
            /\ report' = "done"
    /\ pc' = "analysed"
    /\ UNCHANGED <<response, start_date, end_date, history, api_result>>
    /\ UNCHANGED econVars
    /\ UNCHANGED lookupVars

-----------------------------------------------------------------------------
(* api.py: get_prices_by_game_id *)

\* the filter condition of the list comprehension for one entry: "keep",
\* "drop", or the exception evaluating it raises.  entry["timestamp"] raises
\* KeyError for a missing key; .replace raises AttributeError on a value
\* that is no string.
ApiEntryOutcome(entry, end_dt) ==
    LET timestamp == entry.timestamp
    IN  IF timestamp = Absent THEN "KeyError"
        ELSE IF ~IsStr(timestamp) THEN "AttributeError"
        ELSE LET entry_date == ParseIso(timestamp)
             IN  IF ~entry_date.ok THEN "ValueError"
                 ELSE IF ~Comparable(entry_date, end_dt) THEN "TypeError"
                 ELSE IF entry_date.t <= end_dt.t THEN "keep"
                 ELSE "drop"

RECURSIVE ApiFilter(_, _, _)
ApiFilter(data, end_dt, kept) ==
    IF data = <<>> THEN [outcome |-> "ok", data |-> kept]
    ELSE LET o == ApiEntryOutcome(Head(data), end_dt)
         IN  CASE o = "keep" -> ApiFilter(Tail(data), end_dt, Append(kept, Head(data)))
               [] o = "drop" -> ApiFilter(Tail(data), end_dt, kept)
               [] OTHER -> [outcome |-> o, data |-> <<>>]

\* the try block of lines 124-131 on response.json(): iterating a number or
\* null, or indexing the characters of a string or the keys of a dict with
\* "timestamp", raises TypeError
ApiEndFilter(resp, ed) ==
    LET end_dt == ParseIso(ed)
    IN  IF ~end_dt.ok THEN [outcome |-> "ValueError", data |-> <<>>]
        ELSE IF resp.shape # "list" THEN [outcome |-> "TypeError", data |-> <<>>]
        ELSE ApiFilter(resp.items, end_dt, <<>>)

\* the response model PriceHistoryResponse wants a string for every
\* timestamp, for start_date and for end_date
ValidResponse(data) == \A i \in 1..Len(data) : IsStr(data[i].timestamp)

HttpError(code) == [code |-> code, prices |-> <<>>]

\* lines 137-153 on the (filtered) list
ApiBuild(data) ==
    IF data = <<>> THEN HttpError(404)
    ELSE IF data[Len(data)].timestamp = Absent \/ data[1].timestamp = Absent
         THEN HttpError(500)
    ELSE IF ~ValidResponse(data) THEN HttpError(500)
    ELSE [code |-> 200, prices |-> data]

\* the HTTP outcome of the handler.  start_date only goes upstream as the
\* "since" parameter; it is never parsed here.
ApiOutcome(resp, sd, ed) ==
    IF resp.status # "ok" THEN HttpError(503)
    ELSE IF Truthy(ed)
         THEN LET f == ApiEndFilter(resp, ed)
              IN  CASE f.outcome = "ok" -> ApiBuild(f.data)
                    [] f.outcome \in {"ValueError", "TypeError"} -> HttpError(400)
                    [] OTHER -> HttpError(500)
         ELSE IF resp.shape # "list" THEN HttpError(404)
              ELSE ApiBuild(resp.items)

GetPricesByGameId ==
    /\ pc = "init"
    /\ api_result' = ApiOutcome(response, start_date, end_date)
    /\ pc' = "api_done"
    /\ UNCHANGED <<response, start_date, end_date, history, csv_rows, report>>
    /\ UNCHANGED <<csv_file, variation>>
    /\ UNCHANGED econVars
    /\ UNCHANGED lookupVars

-----------------------------------------------------------------------------
(* economy.py: the collected data frame *)

\* A cell of the "year" or "value" column as collected: text that reads as
\* a number (n, in tenths: "2020" is 20200, "2020.5" is 20205) or text that
\* does not.  NaN is the missing value pandas puts where coercion fails.
Cell(k, n) == [k |-> k, n |-> n]
NaN == Cell("nan", 0)

Countries == <<"BRA", "USA">>
Indicators == <<"NGDPDPC", "PCPIPCH">>
YearCells == {Cell("num", 20200), Cell("num", 20210), Cell("num", 20205), Cell("junk", 0)}
ValueCells == {Cell("num", 1000), Cell("num", 9990), Cell("junk", 0)}

Range(seq) == {seq[i] : i \in 1..Len(seq)}

Rows == [country : Range(Countries), year : YearCells,
         indicator : Range(Indicators), value : ValueCells]

\* position of a string in the alphabetical order of its column
Rank(x, order) == CHOOSE i \in 1..Len(order) : order[i] = x

-----------------------------------------------------------------------------
(* economy.py: IMFEconomicDataCollector.prepare_csv_formats *)

\* pd.to_numeric(column, errors="coerce") on one cell
ToNumeric(c) == IF c.k = "num" THEN c ELSE NaN

\* .astype("Int64") refuses a float column holding a non-integral number
\* (TypeError: cannot safely cast non-equivalent float64 to int64)
SafeCast(c) == c.k = "nan" \/ c.n % 10 = 0

\* one cell of the column after .astype("Int64")
AsInt64(c) == IF c.k = "nan" THEN NaN ELSE Cell("num", c.n \div 10)

CoerceRow(r) ==
    [country |-> r.country,
     year |-> AsInt64(ToNumeric(r.year)),
     indicator |-> r.indicator,
     value |-> ToNumeric(r.value)]

\* df.dropna(subset=["year", "value"]) after the two coercions
DropNa(rows) ==
    LET coerced == [i \in 1..Len(rows) |-> CoerceRow(rows[i])]
    IN  SelectSeq(coerced, LAMBDA r : r.year # NaN /\ r.value # NaN)

\* (country, year) < (country, year) in the order of the pivot's index
KeyLess(a, b) ==
    \/ Rank(a.country, Countries) < Rank(b.country, Countries)
    \/ a.country = b.country /\ a.year.n < b.year.n

\* the (country, year) pairs of a set, in descending order
RECURSIVE SortKeysDescending(_)
SortKeysDescending(S) ==
    IF S = {} THEN <<>>
    ELSE LET m == CHOOSE x \in S : \A y \in S \ {x} : KeyLess(y, x)
         IN  <<m>> \o SortKeysDescending(S \ {m})

\* the (country, year) pairs of a set, in ascending order
RECURSIVE SortKeys(_)
SortKeys(S) ==
    IF S = {} THEN <<>>
    ELSE LET m == CHOOSE x \in S : \A y \in S \ {x} : KeyLess(x, y)
         IN  <<m>> \o SortKeys(S \ {m})

RECURSIVE KeysAsSeen(_, _)
KeysAsSeen(rows, seen) ==
    IF rows = <<>> THEN seen
    ELSE LET key == [country |-> Head(rows).country, year |-> Head(rows).year]
         IN  KeysAsSeen(Tail(rows), IF Occurs(key, seen) THEN seen ELSE Append(seen, key))

\* IndexKeys as pivot_table(sort=False) would give it: in order of appearance
IndexKeysUnsorted(rows) == KeysAsSeen(rows, <<>>)

\* the pivot's index: the distinct (country, year) pairs, sorted
IndexKeys(rows) ==
    SortKeys({[country |-> rows[i].country, year |-> rows[i].year] : i \in 1..Len(rows)})

\* aggfunc="last"
AggLast(vals) == vals[Len(vals)]

\* aggfunc="first": the first value of a group, in row order
AggFirst(vals) == vals[1]

\* the values of the rows of one (country, year, indicator) group, in row order
GroupValues(rows, key, ind) ==
    LET grp == SelectSeq(rows, LAMBDA r : r.country = key.country /\ r.year = key.year
                                          /\ r.indicator = ind)
    IN  [i \in 1..Len(grp) |-> grp[i].value]

\* the prefix of the indicator's description that goes into a column name
DescPrefixLen == 30

\* f"{ind}_{description[:30]}"
ColumnName(ind) == [code |-> ind, desc_chars |-> DescPrefixLen]

\* pivot_table(index=[country, year], columns=indicator, values=value,
\* aggfunc="first").reset_index(), with the columns renamed
PivotTable(rows) ==
    LET keys == IndexKeys(rows)
        cols == {rows[i].indicator : i \in 1..Len(rows)}
        cell(key, ind) ==
            LET vals == GroupValues(rows, key, ind)
            IN  IF vals = <<>> THEN NaN ELSE AggFirst(vals)
    IN  [i \in 1..Len(keys) |->
            [country |-> keys[i].country,
             year |-> keys[i].year,
             indicators |-> [c \in {ColumnName(ind) : ind \in cols} |-> cell(keys[i], c.code)]]]

\* (country, year, indicator) order of sort_values
RowLess(a, b) ==
    \/ KeyLess(a, b)
    \/ /\ a.country = b.country
       /\ a.year = b.year
       /\ Rank(a.indicator, Indicators) < Rank(b.indicator, Indicators)

\* stable insertion of row r into a sorted sequence
RECURSIVE InsertSorted(_, _)
InsertSorted(sorted, r) ==
    IF sorted = <<>> THEN <<r>>
    ELSE IF RowLess(r, Head(sorted)) THEN <<r>> \o sorted
    ELSE <<Head(sorted)>> \o InsertSorted(Tail(sorted), r)

\* df.sort_values(["country", "year", "indicator"])
RECURSIVE SortValues(_)
SortValues(rows) ==
    IF rows = <<>> THEN <<>>
    ELSE InsertSorted(SortValues(SubSeq(rows, 1, Len(rows) - 1)), rows[Len(rows)])

\* the "no data" sentinel prepare_csv_formats returns
NoneFormats == [kind |-> "None", long_format |-> <<>>, wide_format |-> <<>>,
                by_country |-> <<>>]

\* the TypeError that leaves prepare_csv_formats from the Int64 cast
CastError == [kind |-> "TypeError", long_format |-> <<>>, wide_format |-> <<>>,
              by_country |-> <<>>]

PrepareCsvFormats(rows) ==
    IF rows = <<>> THEN NoneFormats
    ELSE IF \E i \in 1..Len(rows) : ~SafeCast(ToNumeric(rows[i].year)) THEN CastError
    ELSE LET clean == DropNa(rows)
         IN  [kind |-> "formats",
              long_format |-> clean,
              wide_format |-> PivotTable(clean),
              by_country |-> SortValues(clean)]

-----------------------------------------------------------------------------
(* economy.py: main() *)

\* the files export_to_csv writes: one per format, and the metadata
ExportToCsv(f) == {"long_format", "wide_format", "by_country", "metadata"}

\* lines 207-222: an empty frame skips the whole block; otherwise the
\* formats are prepared
MainPrepare ==
    /\ epc = "collected"
    /\ IF df = <<>>
       THEN /\ epc' = "done"
            /\ UNCHANGED formats
       ELSE /\ formats' = PrepareCsvFormats(df)
            /\ epc' = IF formats'.kind = "TypeError" THEN "raised" ELSE "prepared"
    /\ UNCHANGED <<df, files, banner>>
    /\ UNCHANGED priceVars
    /\ UNCHANGED lookupVars

\* lines 224-241: export when formats is truthy (a dict with its three
\* keys always is), the failure banner otherwise
MainFinish ==
    /\ epc = "prepared"
    /\ IF formats.kind = "formats"
       THEN /\ files' = ExportToCsv(formats)
            /\ banner' = "PROCESSO CONCLUIDO"
       ELSE /\ files' = files
            /\ banner' = "FALHA"
    /\ epc' = "done"
    /\ UNCHANGED <<df, formats>>
    /\ UNCHANGED priceVars
    /\ UNCHANGED lookupVars

-----------------------------------------------------------------------------
(* api.py: the economic-indicators endpoints *)

\* a country code as text: its letters and how they are cased
\* ("BRA", "bra", "Bra")
Code(letters, case) == [letters |-> letters, case |-> case]

\* the code looked up as the caller wrote it
AsGiven(c) == c

\* country.upper()
Upper(c) == Code(c.letters, "upper")

\* the years a stored data point or a request can name
FirstYear == 2023
LastYear == 2024
Periods == FirstYear..LastYear

\* a stored data point: its period, and whether it carries all three
\* indicators the response model Indicator requires
DataPoints == [period : Periods, complete : BOOLEAN]

\* the keys of the "data" object of the file
StoredKeys == {Code("BRA", "upper"), Code("BRA", "lower")}

\* economic_data: the error dict of a missing file, or the file's content
NoFile == [error |-> TRUE, data |-> [k \in {} |-> <<>>]]

EconomicData ==
    {NoFile} \cup
    {[error |-> FALSE, data |-> d] :
        d \in UNION {[K -> SeqsUpTo(DataPoints, MaxPoints)] : K \in SUBSET StoredKeys}}

Requests ==
    [endpoint : {"by_country", "by_country_and_year"},
     country : {Code(l, c) : l \in {"BRA", "USA"}, c \in {"upper", "lower", "mixed"}},
     year : FirstYear..(LastYear + 1)]

NotFound == [code |-> 404, body |-> <<>>]

\* economic_data.get("data", {}).get(country.upper()), None as the empty list
CountryData(ed, country) ==
    IF Upper(country) \in DOMAIN ed.data THEN ed.data[Upper(country)] ELSE <<>>

\* FastAPI validates what the handler returns against the response model
Validated(points) ==
    IF \A i \in 1..Len(points) : points[i].complete
    THEN [code |-> 200, body |-> points]
    ELSE [code |-> 500, body |-> <<>>]

\* get_economic_indicators_by_country
ByCountry(ed, country) ==
    IF ed.error THEN NotFound
    ELSE LET country_data == CountryData(ed, country)
         IN  IF country_data = <<>> THEN NotFound
             ELSE Validated(country_data)

\* the first data point of the list whose period is the year, if any
RECURSIVE FirstOfYear(_, _)
FirstOfYear(points, year) ==
    IF points = <<>> THEN <<>>
    ELSE IF Head(points).period = year THEN <<Head(points)>>
    ELSE FirstOfYear(Tail(points), year)

\* get_economic_indicators_by_country_and_year
ByCountryAndYear(ed, country, year) ==
    IF ed.error THEN NotFound
    ELSE LET country_data == CountryData(ed, country)
         IN  IF country_data = <<>> THEN NotFound
             ELSE LET found == FirstOfYear(country_data, year)
                  IN  IF found = <<>> THEN NotFound ELSE Validated(found)

LookupOutcome(ed, req) ==
    IF req.endpoint = "by_country"
    THEN ByCountry(ed, req.country)
    ELSE ByCountryAndYear(ed, req.country, req.year)

NoLookupResult == [code |-> 0, body |-> <<>>]

GetEconomicIndicatorsByCountry ==
    /\ request.endpoint = "by_country"
    /\ lookup_result = NoLookupResult
    /\ lookup_result' = ByCountry(economic_data, request.country)
    /\ UNCHANGED <<economic_data, request>>
    /\ UNCHANGED <<priceVars, econVars>>

GetEconomicIndicatorsByCountryAndYear ==
    /\ request.endpoint = "by_country_and_year"
    /\ lookup_result = NoLookupResult
    /\ lookup_result' = ByCountryAndYear(economic_data, request.country, request.year)
    /\ UNCHANGED <<economic_data, request>>
    /\ UNCHANGED <<priceVars, econVars>>

\* no economic-indicators request is being served
LookupIdle ==
    /\ economic_data = NoFile
    /\ request = [endpoint |-> "none", country |-> Code("", "upper"), year |-> 0]
    /\ lookup_result = NoLookupResult

-----------------------------------------------------------------------------
(* Idle values of the economy pipeline, used while the price paths run *)

NoFormats == [kind |-> "unset", long_format |-> <<>>, wide_format |-> <<>>,
              by_country |-> <<>>]

EconIdle ==
    /\ epc = "idle"
    /\ df = <<>>
    /\ formats = NoFormats
    /\ files = {}
    /\ banner = "none"

Init ==
    /\ pc = "init"
    /\ response \in Responses
    /\ start_date \in BoundValues
    /\ end_date \in BoundValues
    /\ history = NoHistory
    /\ csv_rows = <<>>
    /\ report = "none"
    /\ api_result = NoApiResult
    /\ csv_file = <<>>
    /\ variation = NoVariation
    /\ EconIdle
    /\ LookupIdle

Next ==
    \/ CallGetPriceHistory
    \/ RunAnalysisFetch
    \/ RunAnalysisSave
    \/ GetPricesByGameId

Spec == Init /\ [][Next]_vars

-----------------------------------------------------------------------------
(* Properties of the price-history paths *)

\* get_price_history has been called (directly or by run_analysis)
HistoryCalled == history # NoHistory

OkList == response.status = "ok" /\ response.shape = "list"

\* a timestamp that is present and parses as ISO-8601
ParseableTimestamp(v) == v # Absent /\ Truthy(v) /\ IsStr(v) /\ ParseIso(v).ok

\* a date bound the caller gave and that is not ISO-8601
Malformed(b) == Truthy(b) /\ ~ParseIso(b).ok

\* a date bound that is not given, or is valid ISO-8601
WellFormed(b) == b = None \/ ParseIso(b).ok

\* the instant of timestamp ts lies strictly before / after bound b
Before(ts, b) == b # None /\ ParseIso(ts).t < ParseIso(b).t
After(ts, b) == b # None /\ ParseIso(ts).t > ParseIso(b).t

InRange(ts) == ~Before(ts, start_date) /\ ~After(ts, end_date)

\* C1: for well-formed bounds the call returns, and an entry with a parseable
\* timestamp is in the returned list exactly when its instant is neither
\* strictly before start_date nor strictly after end_date (so an entry at
\* exactly start_date or end_date is returned).
C1_InclusiveBounds ==
    (HistoryCalled /\ OkList /\ WellFormed(start_date) /\ WellFormed(end_date))
    => /\ history.outcome = "return"
       /\ \A i \in 1..Len(response.items) :
            LET ts == response.items[i].timestamp
            IN  ParseableTimestamp(ts)
                => (Occurs(response.items[i], history.data) <=> InRange(ts))

\* C2: every entry get_price_history returns, and every row run_analysis
\* writes to the CSV, has a present, ISO-8601-parseable timestamp.
C2_ParseableOutput ==
    /\ \A i \in 1..Len(history.data) : ParseableTimestamp(history.data[i].timestamp)
    /\ \A i \in 1..Len(csv_rows) : ParseableTimestamp(csv_rows[i].timestamp)

\* C2 witness: run_analysis wrote a CSV from a payload that also held an
\* entry without a parseable timestamp.
C2_Witness ==
    /\ pc = "analysed"
    /\ csv_rows # <<>>
    /\ OkList
    /\ \E i \in 1..Len(response.items) : ~ParseableTimestamp(response.items[i].timestamp)

\* C6: for a non-empty entry list and start_date later than end_date,
\* get_price_history returns the empty list and raises nothing.
C6_EmptyWhenReversed ==
    (/\ HistoryCalled
     /\ OkList
     /\ response.items # <<>>
     /\ ParseIso(start_date).ok
     /\ ParseIso(end_date).ok
     /\ Comparable(ParseIso(start_date), ParseIso(end_date))
     /\ ParseIso(start_date).t > ParseIso(end_date).t)
    => history = [outcome |-> "return", data |-> <<>>]

\* C7: a malformed start_date or end_date ends the filtering operation in an
\* invalid-argument error: get_price_history raises it, the HTTP handler
\* answers 400.
C7_MalformedBoundReported ==
    (/\ OkList
     /\ \E i \in 1..Len(response.items) : ParseableTimestamp(response.items[i].timestamp)
     /\ Malformed(start_date) \/ Malformed(end_date))
    => /\ HistoryCalled => history.outcome = "InvalidArgument"
       /\ pc = "api_done" => api_result.code = 400

\* every date involved carries the UTC designator
UtcOnly ==
    /\ start_date = None \/ start_date.k = "z"
    /\ end_date = None \/ end_date.k = "z"
    /\ \A i \in 1..Len(response.items) :
         ParseableTimestamp(response.items[i].timestamp)
         => response.items[i].timestamp.k = "z"

BadEntryPresent ==
    \E i \in 1..Len(response.items) : ~ParseableTimestamp(response.items[i].timestamp)

ValidInRange(i) ==
    /\ ParseableTimestamp(response.items[i].timestamp)
    /\ InRange(response.items[i].timestamp)

\* C8: when an entry of the list has a missing or unparseable timestamp, both
\* date-filtering paths surface no error and still return every valid entry
\* that is in range (all dates in UTC).
C8_BadEntryAbsorbed ==
    (OkList /\ UtcOnly /\ BadEntryPresent)
    => /\ HistoryCalled
          => /\ history.outcome = "return"
             /\ \A i \in 1..Len(response.items) :
                  ValidInRange(i) => Occurs(response.items[i], history.data)
       /\ (pc = "api_done" /\ Truthy(end_date))
          => /\ api_result.code \in {200, 404}
             /\ \A i \in 1..Len(response.items) :
                  ValidInRange(i)
                  => /\ api_result.code = 200
                     /\ Occurs(response.items[i], api_result.prices)

\* C9: a payload that is neither a list nor a dict ends in an adaptation
\* error: not in an empty result, not in "nothing found", not in 404.
C9_UnrecognizedShapeReported ==
    (response.status = "ok" /\ response.shape = "scalar")
    => /\ HistoryCalled => history.outcome = "AdaptationError"
       /\ pc = "analysed" => report # "no_data"
       /\ pc = "api_done" => api_result.code \notin {200, 404}

\* C16: with date-only bounds (no offset, as the docstring documents) and
\* upstream timestamps that carry the "Z" suffix, get_price_history returns,
\* and returns exactly the entries whose instant lies within the bounds.
C16_DateOnlyBounds ==
    (/\ HistoryCalled
     /\ OkList
     /\ start_date.k = "naive"
     /\ end_date.k = "naive"
     /\ \A i \in 1..Len(response.items) : response.items[i].timestamp.k = "z")
    => /\ history.outcome = "return"
       /\ \A i \in 1..Len(response.items) :
            Occurs(response.items[i], history.data) <=> InRange(response.items[i].timestamp)

-----------------------------------------------------------------------------
(* Properties of the economy pipeline *)

Prepared == epc \in {"prepared", "done"} /\ formats.kind = "formats"

SameKey(a, b) ==
    a.country = b.country /\ a.year = b.year /\ a.indicator = b.indicator

\* the wide table has a row for (country, year) whose column ind holds v
WideHolds(wide, r, v) ==
    \E k \in 1..Len(wide) :
        /\ wide[k].country = r.country
        /\ wide[k].year = r.year
        /\ ColumnName(r.indicator) \in DOMAIN wide[k].indicators
        /\ wide[k].indicators[ColumnName(r.indicator)] = v

\* C3: the wide-format value of a (country, year, indicator) key is the value
\* of the first cleaned row, in input order, that has the key.
C3_FirstOccurrenceWins ==
    Prepared
    => \A i \in 1..Len(formats.long_format) :
         LET r == formats.long_format[i]
         IN  (\A j \in 1..(i - 1) : ~SameKey(formats.long_format[j], r))
             => /\ WideHolds(formats.wide_format, r, r.value)
                /\ \A k \in 1..Len(formats.wide_format) :
                     (formats.wide_format[k].country = r.country
                      /\ formats.wide_format[k].year = r.year)
                     => formats.wide_format[k].indicators[ColumnName(r.indicator)] = r.value

\* C3 witness: two cleaned rows share a key and differ in value.
C3_Witness ==
    /\ Prepared
    /\ \E i, j \in 1..Len(formats.long_format) :
          /\ i < j
          /\ SameKey(formats.long_format[i], formats.long_format[j])
          /\ formats.long_format[i].value # formats.long_format[j].value

\* the re-orderings of a sequence
Perms(seq) ==
    LET n == Len(seq)
    IN  {[i \in 1..n |-> seq[f[i]]] :
            f \in {g \in [1..n -> 1..n] : \A a, b \in 1..n : g[a] = g[b] => a = b}}

SameWideForEveryOrder ==
    \A q \in Perms(df) : PrepareCsvFormats(q).wide_format = formats.wide_format

\* C4 as stated: every re-ordering of the input rows gives the same
\* wide-format table.
C4_OrderInvariant == Prepared => SameWideForEveryOrder

\* rows that share a (country, year, indicator) key carry the same value
KeysAgree(rows) ==
    \A i, j \in 1..Len(rows) : SameKey(rows[i], rows[j]) => rows[i].value = rows[j].value

\* C4 amended: when rows sharing a (country, year, indicator) key carry the
\* same value, every re-ordering of the input rows gives the same wide-format
\* table.
C4_OrderInvariantWhenKeysAgree ==
    (Prepared /\ KeysAgree(formats.long_format)) => SameWideForEveryOrder

\* C4 witness: two cleaned rows of different (country, year) arrive in
\* descending order, so that a re-ordering exists and the pivot has to sort.
C4_Witness ==
    /\ Prepared
    /\ KeysAgree(formats.long_format)
    /\ Len(formats.long_format) >= 2
    /\ KeyLess(formats.long_format[2], formats.long_format[1])

\* a collected row whose year reads as an integer and whose value reads as a
\* number
Coercible(r) == r.year.k = "num" /\ r.year.n % 10 = 0 /\ r.value.k = "num"

CleanTable(t) == \A i \in 1..Len(t) : t[i].year.k = "num" /\ t[i].value.k = "num"

\* C5: once prepare_csv_formats has been given a non-empty frame, every row
\* coercible on year and value is in long_format, and no table holds a row
\* that failed a coercion.
C5_CoercionFilter ==
    (epc \in {"prepared", "raised", "done"} /\ df # <<>>)
    => /\ \A i \in 1..Len(df) :
            Coercible(df[i])
            => formats.kind = "formats" /\ Occurs(CoerceRow(df[i]), formats.long_format)
       /\ CleanTable(formats.long_format)
       /\ CleanTable(formats.by_country)
       /\ Len(formats.long_format) = Cardinality({i \in 1..Len(df) : Coercible(df[i])})
       /\ Len(formats.by_country) = Len(formats.long_format)

\* C10: a run whose observation sequence is empty ends with the failure
\* banner and without a CSV file.
C10_EmptyReportsFailure ==
    (epc = "done" /\ df = <<>>) => (banner = "FALHA" /\ files = {})

\* the (country, year) pair of a row
KeyOf(r) == [country |-> r.country, year |-> r.year]

\* C11: the wide table has exactly one row per (country, year) pair of the
\* cleaned observations, that row holds a value for every indicator observed
\* for the pair, and within a country the years are strictly ascending.
C11_OneRowPerCountryYear ==
    Prepared
    => LET wide == formats.wide_format
           long == formats.long_format
       IN  /\ {KeyOf(wide[k]) : k \in 1..Len(wide)} = {KeyOf(long[i]) : i \in 1..Len(long)}
           /\ \A k, l \in 1..Len(wide) : KeyOf(wide[k]) = KeyOf(wide[l]) => k = l
           /\ \A i \in 1..Len(long) : \A k \in 1..Len(wide) :
                KeyOf(wide[k]) = KeyOf(long[i])
                => /\ ColumnName(long[i].indicator) \in DOMAIN wide[k].indicators
                   /\ wide[k].indicators[ColumnName(long[i].indicator)] # NaN
           /\ \A k, l \in 1..Len(wide) :
                (k < l /\ wide[k].country = wide[l].country)
                => wide[k].year.n < wide[l].year.n

\* C11 witness: one country observed in two years, the later year first, so
\* that the wide table has two rows and their order is the sort's doing.
C11_Witness ==
    /\ Prepared
    /\ \E i, j \in 1..Len(formats.long_format) :
          /\ i < j
          /\ formats.long_format[i].country = formats.long_format[j].country
          /\ formats.long_format[i].year.n > formats.long_format[j].year.n
    /\ Len(formats.wide_format) = 2

\* C17: whenever export_to_csv has written files, the long_format table has
\* at least one row; a frame whose rows all fail coercion exports nothing.
C17_NeverExportsEmptyTable ==
    (epc = "done" /\ files # {}) => formats.long_format # <<>>

-----------------------------------------------------------------------------
(* One run of economy.main() *)

PriceIdle ==
    /\ pc = "idle"
    /\ response = [status |-> "error", shape |-> "scalar", items |-> <<>>]
    /\ start_date = None
    /\ end_date = None
    /\ history = NoHistory
    /\ csv_rows = <<>>
    /\ report = "none"
    /\ api_result = NoApiResult
    /\ csv_file = <<>>
    /\ variation = NoVariation

InitEcon ==
    /\ epc = "collected"
    /\ df \in SeqsUpTo(Rows, MaxRows)
    /\ formats = NoFormats
    /\ files = {}
    /\ banner = "none"
    /\ PriceIdle
    /\ LookupIdle

NextEcon ==
    \/ MainPrepare
    \/ MainFinish

SpecEcon == InitEcon /\ [][NextEcon]_vars

-----------------------------------------------------------------------------
(* One request to an economic-indicators endpoint *)

InitLookup ==
    /\ economic_data \in EconomicData
    /\ request \in Requests
    /\ lookup_result = NoLookupResult
    /\ PriceIdle
    /\ EconIdle

NextLookup ==
    \/ GetEconomicIndicatorsByCountry
    \/ GetEconomicIndicatorsByCountryAndYear

SpecLookup == InitLookup /\ [][NextLookup]_vars

\* the request has been answered
Answered == lookup_result # NoLookupResult

\* the data stored under the uppercase form of the requested code
StoredUpper ==
    IF Code(request.country.letters, "upper") \in DOMAIN economic_data.data
    THEN economic_data.data[Code(request.country.letters, "upper")]
    ELSE <<>>

\* nothing is stored for what the request asks
NothingStored ==
    \/ economic_data.error
    \/ StoredUpper = <<>>
    \/ /\ request.endpoint = "by_country_and_year"
       /\ \A i \in 1..Len(StoredUpper) : StoredUpper[i].period # request.year

\* C15: the answer is the same for every letter-case of the requested code,
\* a request for which nothing is stored under the uppercase code is answered
\* 404, and no answer is a success without data.
C15_CaseInsensitiveLookup ==
    Answered
    => /\ \A c \in {"upper", "lower", "mixed"} :
            LookupOutcome(economic_data,
                          [request EXCEPT !.country = Code(request.country.letters, c)])
            = lookup_result
       /\ NothingStored => lookup_result.code = 404
       /\ lookup_result.code = 200 => lookup_result.body # <<>>
       /\ (~NothingStored /\ \A i \in 1..Len(StoredUpper) : StoredUpper[i].complete)
          => /\ lookup_result.code = 200
             /\ \A i \in 1..Len(lookup_result.body) : Occurs(lookup_result.body[i], StoredUpper)

\* C15 witness: data stored under "BRA" is found by a lowercase request.
C15_Witness ==
    /\ Answered
    /\ request.country = Code("BRA", "lower")
    /\ lookup_result.code = 200
    /\ Code("BRA", "lower") \notin DOMAIN economic_data.data

-----------------------------------------------------------------------------
(* One run of run_analysis on entries with valid timestamps *)

InitRun ==
    /\ pc = "init"
    /\ response \in {[status |-> "ok", shape |-> "list", items |-> items] :
                        items \in SeqsUpTo(PricedEntries, MaxLen)}
    /\ start_date = None
    /\ end_date = None
    /\ history = NoHistory
    /\ csv_rows = <<>>
    /\ report = "none"
    /\ api_result = NoApiResult
    /\ csv_file = <<>>
    /\ variation = NoVariation
    /\ EconIdle
    /\ LookupIdle

NextRun ==
    \/ RunAnalysisFetch
    \/ RunAnalysisSave

SpecRun == InitRun /\ [][NextRun]_vars

\* run_analysis has written the CSV and printed its summary
Summarised == pc = "analysed" /\ csv_rows # <<>>

\* a price amount that is a number greater than zero
Positive(v) == v.k = "int" /\ v.t > 0

LatestAmount == history.data[1].price_amount
OldestAmount == history.data[Len(history.data)].price_amount

\* C12: a variation is reported only when there is more than one record and
\* the first and the last record both have a strictly positive price_amount.
C12_VariationOnlyForPositiveAmounts ==
    (Summarised /\ variation.reported)
    => /\ Len(history.data) > 1
       /\ Positive(LatestAmount)
       /\ Positive(OldestAmount)

\* C13: a reported variation has the magnitude |latest - oldest| / oldest * 100
\* (to the printed tenth of a percent), the label "aumento" exactly when
\* latest > oldest and the label "queda" exactly when latest < oldest.
C13_MagnitudeAndLabel ==
    (Summarised /\ variation.reported /\ Positive(LatestAmount) /\ Positive(OldestAmount))
    => LET diff == LatestAmount.t - OldestAmount.t
       IN  /\ 2 * AbsVal(variation.tenths * OldestAmount.t - AbsVal(diff) * 1000)
                <= OldestAmount.t
           /\ variation.label = "aumento" <=> diff > 0
           /\ variation.label = "queda" <=> diff < 0

\* graph.py reads the file back with pd.read_csv: an empty cell is a missing
\* value, digits are a number, anything else is the string
ReadCell(txt) ==
    CASE txt.k = "empty" -> Absent
      [] txt.k = "digits" -> Number(txt.t)
      [] OTHER -> txt

\* a field the source entry defines
Defined(v) == v.k \notin {"absent", "None"}

\* C14: the file has one line per entry, in order; a field the entry defines
\* reads back as the entry's value, and a field it does not define is
\* written as the empty string (never as "None"), except cut, written as 0.
C14_CsvRoundTrip ==
    Summarised
    => /\ Len(csv_file) = Len(history.data)
       /\ \A i \in 1..Len(csv_file) : \A c \in Columns :
            LET src == history.data[i][c]
                txt == csv_file[i][c]
            IN  IF Defined(src)
                THEN ReadCell(txt) = src
                ELSE txt = (IF c = "cut" THEN Val("digits", 0) ELSE EmptyStr)

\* C14 witness: a file of two lines, from an entry that lacks shop, price and
\* cut and an entry that has them.
C14_Witness ==
    /\ Summarised
    /\ Len(csv_file) = 2
    /\ \E i, j \in 1..2 :
          /\ \A c \in {"shop_id", "shop_name", "price_amount", "price_currency", "cut"} :
                ~Defined(history.data[i][c]) /\ Defined(history.data[j][c])

====
